---- MODULE Spec2Model ----
(***************************************************************************)
(* Model of the Eddington-number tool: the Eddington engine of             *)
(* calculations.py (pure functions over a distance series) and the trip    *)
(* cache synchronizer of main.py / client.py / utils.py (update_cache and  *)
(* the remote paging it drives).                                           *)
(*                                                                         *)
(* A distance is a non-negative decimal.  It is represented by the integer *)
(* number of 1/Scale units it holds, so that fractional distances exist    *)
(* and int(distance) is a real truncation.  A trip record is represented   *)
(* by its id; the remote source assigns ids in increasing order and lists  *)
(* its records newest first, PageSize to a page.                           *)
(***************************************************************************)
EXTENDS Integers, Sequences, FiniteSets, TLC

\* ------------------------------------------------------------------ bounds
\* distances are multiples of 1/Scale
Scale == 2
\* largest whole distance of a generated series
MaxDist == 3
\* longest generated series
MaxLen == 3
\* records to a page of the remote listing (per_page, scaled down)
PageSize == 2
\* most records the remote source comes to hold
MaxRemote == 4
\* the clock stops advancing here (in steps of TickStep seconds)
MaxTime == 3
\* failed get_trips_page calls of one get_all_trips call are counted up to here
MaxFailures == 1

\* the quotient of a Decimal division is kept to 1/AvgScale of a distance step
\* (getcontext().prec = 28 significant digits, scaled down)
AvgScale == 10
\* width of a range of the ride distribution (bucket_size = 50, scaled down)
bucket_size == 2
\* step of the thresholds of analyze_ride_distribution (10, scaled down)
threshold_step == 2
\* the century thresholds of get_milestone_rides (100 miles, 160 km, scaled down)
CenturyMiles == 1
CenturyKm == 2
\* how many longest rides get_milestone_rides lists (5, scaled down)
LongestCount == 2

\* the distances, in meters, of the generated trip records
ShortRide == 1700
LongRide == 3300

\* longest list of named trip records handed to get_ride_titles
MaxTitled == 3

\* datetime.now().year; the records' years are 1 .. CurrentYear + 1
CurrentYear == 2
\* longest list of plain trip records handed to the engine
MaxTrips == 2

\* config.py: CACHE_DURATION = 24 * 60 * 60
CACHE_DURATION == 24 * 60 * 60
\* the clock advances half a CACHE_DURATION at a time
TickStep == 12 * 60 * 60

VARIABLES
    distances,      \* the distance series handed to the engine
    E,              \* what calculate_eddington returned for it (NoResult before)
    prevE,          \* what it returned before the latest change of the series
    op,             \* the latest step of the engine's caller
    out,            \* what the engine function of that step returned
    raised,         \* the exception that left it instead ("" when it returned)
    trip_records    \* the trip records handed to the engine

eddVars == <<distances, E, prevE, op, out, raised, trip_records>>

VARIABLES
    remote,         \* the remote source's records (ids), newest first
    snapshot,       \* per unit, the cache file: absent, corrupt or present
    now,            \* time.time(), in TickStep units
    pc,             \* where the running update_cache call stands
    unit,           \* the unit of the running (or latest) call
    refresh,        \* whether it was started with the refresh flag
    path,           \* update_cache's branch: nocache, expired, fresh, incremental
    cached_trips,   \* cached_data['trips'] as loaded
    page,           \* the page the fetch loop is about to ask for
    total_pages,    \* get_all_trips: page_count of the first response
    fetched,        \* missing_trips / all_trips of the running fetch loop
    calls,          \* remote calls of the running call, by operation (failed page
                    \* fetches of get_all_trips are counted up to MaxFailures)
    failures,       \* failed get_trips_page calls of the running call (up to MaxFailures)
    result,         \* the trips update_cache returned (pc = "done")
    wrote,          \* how the call's cache_data ended: none, ok, unchanged, corrupt
    pre,            \* the unit's cache file when the call was started
    follows,        \* whether the call follows at once a call that left the cache current
    unsaved,        \* whether the call follows a call for the same unit whose
                    \* cache_data failed
    changed,        \* whether the remote gained a record during the call
    quiet,          \* whether nothing has happened since the call ended
    invoked         \* the command that made the call: its entry point (cli.main or
                    \* main.main), its display unit, and which of its calls of
                    \* update_cache this is

envVars == <<remote, snapshot, now>>

callVars == <<pc, unit, refresh, path, cached_trips, page, total_pages, fetched,
              calls, failures, result, wrote, pre, follows, unsaved, changed, invoked>>

syncVars == <<remote, snapshot, now, pc, unit, refresh, path, cached_trips, page,
              total_pages, fetched, calls, failures, result, wrote, pre, follows, unsaved,
              changed, quiet, invoked>>

vars == <<distances, E, prevE, op, out, raised, trip_records, remote, snapshot, now, pc, unit, refresh, path,
          cached_trips, page, total_pages, fetched, calls, failures, result, wrote,
          pre, follows, unsaved, changed, quiet, invoked>>

NoResult == 0 - 1

Min(a, b) == IF a < b THEN a ELSE b

\* ------------------------------------------------- calculations.py helpers
\* a variant of IntPart: truncation to a multiple of two units, halved
IntPartHalf(d) == d \div (2 * Scale)

\* int(distance): truncation of a non-negative decimal
IntPart(d) == d \div Scale

\* max(distances)
MaxOf(s) == CHOOSE m \in {s[k] : k \in DOMAIN s} : \A k \in DOMAIN s : s[k] <= m

\* variants of Qualifies: an equality test, a strict test
QualifiesExact(count, i) == count = i

QualifiesStrict(count, i) == count > i

\* the test of the final scan: rides_above_threshold[i] >= i
Qualifies(count, i) == count >= i

\* for distance in distances: for e in range(1, int(distance) + 1): arr[e] += 1
RECURSIVE Tally(_, _, _)
Tally(ds, k, arr) ==
    IF k > Len(ds) THEN arr
    ELSE Tally(ds, k + 1,
               [e \in DOMAIN arr |->
                   IF e \in 1..IntPart(ds[k]) THEN arr[e] + 1 ELSE arr[e]])

\* E = 0; for i in range(1, max_possible_e + 1): if arr[i] >= i: E = i
RECURSIVE ScanThresholds(_, _, _, _)
ScanThresholds(arr, i, m, e) ==
    IF i > m THEN e
    ELSE ScanThresholds(arr, i + 1, m, IF Qualifies(arr[i], i) THEN i ELSE e)

calculate_eddington(ds) ==
    IF ds = <<>> THEN 0
    ELSE LET max_possible_e == IntPart(MaxOf(ds)) + 1
             rides_above_threshold ==
                 Tally(ds, 1, [e \in 0..max_possible_e |-> 0])
         IN  ScanThresholds(rides_above_threshold, 1, max_possible_e, 0)

\* a variant of CountRides: rides strictly above the threshold
CountRidesAbove(ds, threshold) ==
    Len(SelectSeq(ds, LAMBDA d : d > threshold * Scale))

\* sum(1 for d in distances if d >= threshold), threshold a whole number
CountRides(ds, threshold) ==
    Len(SelectSeq(ds, LAMBDA d : d >= threshold * Scale))

\* returns (current_e, rides_at_next, rides_needed_next, rides_at_nextnext,
\* rides_needed_nextnext)
calculate_overall_e_progress(ds) ==
    LET current_e == calculate_eddington(ds)
        next_e == current_e + 1
        nextnext_e == next_e + 1
        rides_at_next == CountRides(ds, next_e)
        rides_needed_next == next_e - rides_at_next
        rides_at_nextnext == CountRides(ds, nextnext_e)
        rides_needed_nextnext == nextnext_e - rides_at_nextnext
    IN  <<current_e, rides_at_next, rides_needed_next, rides_at_nextnext,
          rides_needed_nextnext>>

\* sum(distances)
RECURSIVE Sum(_)
Sum(ds) == IF ds = <<>> THEN 0 ELSE Head(ds) + Sum(Tail(ds))

\* a variant of DecimalDivide: the quotient truncated
DecimalDivideDown(total, n) == (total * AvgScale) \div n

\* total / Decimal(n) in the decimal context: the quotient, in 1/AvgScale of a
\* distance step, rounded half to even
DecimalDivide(total, n) ==
    LET q == (total * AvgScale) \div n
        r == (total * AvgScale) % n
    IN  IF 2 * r > n \/ (2 * r = n /\ q % 2 = 1) THEN q + 1 ELSE q

\* longest_ride and total_distance in distance steps, average_ride in 1/AvgScale
\* of a distance step
calculate_statistics(ds) ==
    IF ds = <<>>
    THEN [longest_ride |-> 0, average_ride |-> 0, total_distance |-> 0]
    ELSE LET total_distance == Sum(ds)
         IN  [longest_ride |-> MaxOf(ds),
              average_ride |-> DecimalDivide(total_distance, Len(ds)),
              total_distance |-> total_distance]

\* range(0, stop, step) for a positive step
Range(stop, step) == {i \in 0..(stop - 1) : i % step = 0}

\* analyze_ride_distribution for a non-empty series (max(distances) raises
\* ValueError on an empty one): threshold -> rides of at least the threshold,
\* thresholds without rides left out
analyze_ride_distribution(ds) ==
    LET thresholds == Range(IntPart(MaxOf(ds)) + threshold_step, threshold_step)
    IN  [t \in {x \in thresholds : CountRides(ds, x) > 0} |-> CountRides(ds, t)]

\* lower <= d < upper
InRange(d, lower, upper) == lower * Scale <= d /\ d < upper * Scale

\* display_distribution lines 136-147 (main.main lines 212-223): the buckets,
\* lower end -> rides in [lower, lower + bucket_size), empty ranges left out
Buckets(ds) ==
    LET max_distance == IF ds # <<>> THEN MaxOf(ds) ELSE 0
        lowers == Range(IntPart(max_distance) + bucket_size, bucket_size)
        count(lower) ==
            Len(SelectSeq(ds, LAMBDA d : InRange(d, lower, lower + bucket_size)))
    IN  [lower \in {i \in lowers : count(i) > 0} |-> count(lower)]

\* sorted(distances)
RECURSIVE Insert(_, _)
Insert(sorted, d) ==
    IF sorted = <<>> THEN <<d>>
    ELSE IF Head(sorted) <= d THEN <<Head(sorted)>> \o Insert(Tail(sorted), d)
    ELSE <<d>> \o sorted

RECURSIVE Sorted(_)
Sorted(ds) == IF ds = <<>> THEN <<>> ELSE Insert(Sorted(Tail(ds)), Head(ds))

Reversed(ds) == [k \in 1..Len(ds) |-> ds[Len(ds) + 1 - k]]

\* the thresholds of get_milestone_rides for the unit
century(u) == IF u = "miles" THEN CenturyMiles ELSE CenturyKm

\* get_milestone_rides: {} (the empty function) for an empty series
get_milestone_rides(ds, u) ==
    IF ds = <<>> THEN <<>>
    ELSE LET sorted_distances == Sorted(ds)
         IN  [total_rides |-> Len(ds),
              longest |-> sorted_distances[Len(ds)],
              shortest |-> sorted_distances[1],
              median |-> sorted_distances[(Len(ds) \div 2) + 1],
              centuries |-> CountRides(ds, century(u)),
              double_centuries |-> CountRides(ds, 2 * century(u)),
              triple_centuries |-> CountRides(ds, 3 * century(u)),
              quad_centuries |-> CountRides(ds, 4 * century(u)),
              longest_rides |->
                  SubSeq(Reversed(sorted_distances), 1, Min(LongestCount, Len(ds)))]

\* display_milestones: the keys of milestone_rides the report reads for the unit
MilestoneKeys(u) ==
    IF u = "miles"
    THEN {"centuries", "double_centuries", "triple_centuries", "quad_centuries"}
    ELSE {"range_50_to_99", "range_100_to_149", "range_150_to_199",
          "range_200_to_299", "range_300_to_399", "range_400_to_599",
          "range_600_to_999", "range_1000_plus"}

\* milestones[key] raises KeyError for a key the dict does not hold
display_milestones_raises(milestones, u) ==
    IF MilestoneKeys(u) \subseteq DOMAIN milestones THEN "" ELSE "KeyError"

\* ------------------------------------------------ trip records
\* A record's distance is absent (no 'distance' key), not numeric, or a number
\* of whole meters.  A timestamp field is absent (no such
\* key), empty ('' or None), a string datetime.fromisoformat rejects, or a date,
\* of which the year is kept.
DistAbsent == [kind |-> "absent", raw |-> 0]

DistNotNumeric == [kind |-> "not numeric", raw |-> 0]

Dist(n) == [kind |-> "number", raw |-> n]

DateAbsent == [kind |-> "absent", year |-> 0]

DateEmpty == [kind |-> "empty", year |-> 0]

DateUnparseable == [kind |-> "unparseable", year |-> 0]

DateIn(y) == [kind |-> "date", year |-> y]

\* ['departed_at', 'start_date', 'scheduled_date', 'created_at']
DateFields == <<"departed_at", "start_date", "scheduled_date", "created_at">>

\* ------------------------------------------------ Decimal values
\* A Decimal is coef / 10^places: coef a natural number held as its limbs in
\* base 10000, the least significant first (<<>> is 0), places the number of
\* digits after the point.

\* the limbs of the natural number n
RECURSIVE Limbs(_)
Limbs(n) == IF n = 0 THEN <<>> ELSE <<n % 10000>> \o Limbs(n \div 10000)

\* the number of the limbs a
RECURSIVE ToNat(_)
ToNat(a) == IF a = <<>> THEN 0 ELSE Head(a) + 10000 * ToNat(Tail(a))

\* a without leading zero limbs
RECURSIVE Trim(_)
Trim(a) ==
    IF a # <<>> /\ a[Len(a)] = 0 THEN Trim(SubSeq(a, 1, Len(a) - 1)) ELSE a

\* a variant of MulSmall: no carry from one limb to the next
MulSmallNoCarry(a, m, carry) == [k \in 1..Len(a) |-> (a[k] * m) % 10000]

\* a * m + carry, for m up to 10000
RECURSIVE MulSmall(_, _, _)
MulSmall(a, m, carry) ==
    IF a = <<>> THEN Limbs(carry)
    ELSE LET t == Head(a) * m + carry
         IN  <<t % 10000>> \o MulSmall(Tail(a), m, t \div 10000)

\* a + b + carry
RECURSIVE AddLimbs(_, _, _)
AddLimbs(a, b, carry) ==
    IF a = <<>> /\ b = <<>> THEN Limbs(carry)
    ELSE LET t == (IF a = <<>> THEN 0 ELSE Head(a))
                   + (IF b = <<>> THEN 0 ELSE Head(b)) + carry
         IN  <<t % 10000>> \o AddLimbs(IF a = <<>> THEN <<>> ELSE Tail(a),
                                       IF b = <<>> THEN <<>> ELSE Tail(b),
                                       t \div 10000)

\* a * b
RECURSIVE MulLimbs(_, _)
MulLimbs(a, b) ==
    IF b = <<>> THEN <<>>
    ELSE AddLimbs(MulSmall(a, Head(b), 0), <<0>> \o MulLimbs(a, Tail(b)), 0)

\* the quotient and the remainder of (rem * 10000^Len(a) + a) by m, m up to
\* 10000: long division from the most significant limb
RECURSIVE DivSmall(_, _, _)
DivSmall(a, m, rem) ==
    IF a = <<>> THEN [quot |-> <<>>, rem |-> rem]
    ELSE LET t == rem * 10000 + a[Len(a)]
             rest == DivSmall(SubSeq(a, 1, Len(a) - 1), m, t % m)
         IN  [quot |-> Append(rest.quot, t \div m), rem |-> rest.rem]

RECURSIVE Pow10(_)
Pow10(k) == IF k = 0 THEN 1 ELSE 10 * Pow10(k - 1)

\* a \div 10^k
RECURSIVE DropDigits(_, _)
DropDigits(a, k) ==
    IF a = <<>> THEN <<>>
    ELSE IF k >= 4 THEN DropDigits(Tail(a), k - 4)
    ELSE Trim(DivSmall(a, Pow10(k), 0).quot)

\* a % 10^k = 0
RECURSIVE ZeroBelow(_, _)
ZeroBelow(a, k) ==
    IF a = <<>> THEN TRUE
    ELSE IF k >= 4 THEN Head(a) = 0 /\ ZeroBelow(Tail(a), k - 4)
    ELSE DivSmall(<<Head(a)>>, Pow10(k), 0).rem = 0

\* getcontext().prec = 28: a result is kept to this many significant digits
prec == 28

\* Decimal(str(n)) for a natural number n
Decimal(n) == [coef |-> Limbs(n), places |-> 0]

\* x * y in the decimal context.  A coefficient of at most prec \div 4 limbs has
\* at most prec digits and is kept whole; every product of a distance of the
\* model and a conversion constant is that short (Exact), so the rounding of a
\* longer coefficient is left out.
DecimalMultiply(x, y) ==
    [coef |-> Trim(MulLimbs(x.coef, y.coef)), places |-> x.places + y.places]

\* the context did not round x
Exact(x) == Len(x.coef) <= prec \div 4

\* int(x * k) for a natural number k up to 10000: x truncated to a multiple of 1/k
Truncated(x, k) == ToNat(DropDigits(MulSmall(x.coef, k, 0), x.places))

\* x == n for a natural number n
EqualsWhole(x, n) == ZeroBelow(x.coef, x.places) /\ Truncated(x, 1) = n

\* the distance step (1/Scale of a unit) the engine's integer tests see x in:
\* int(x) and x >= e, e whole, are the same for x and for its step
Steps(x) == Truncated(x, Scale)

StepsOf(ds) == [k \in 1..Len(ds) |-> Steps(ds[k])]

\* METERS_TO_MILES = Decimal("0.000621371192237334")
METERS_TO_MILES == [coef |-> <<7334, 9223, 3711, 621>>, places |-> 18]

\* METERS_TO_KM = Decimal("0.001")
METERS_TO_KM == [coef |-> <<1>>, places |-> 3]

\* conversion_factor = METERS_TO_MILES if unit == 'miles' else METERS_TO_KM
conversion_factor(u) == IF u = "miles" THEN METERS_TO_MILES ELSE METERS_TO_KM

\* Decimal(str(trip['distance'])) * conversion_factor, for a distance in whole
\* meters
Convert(distance, u) == DecimalMultiply(Decimal(distance.raw), conversion_factor(u))

HasDistance(trip) == trip.distance.kind # "absent"

\* [Decimal(str(trip['distance'])) * conversion_factor for trip in kept]
Converted(kept, u) == [k \in 1..Len(kept) |-> Convert(kept[k].distance, u)]

\* process_trips: float(trip['distance']) raises on a distance that is no number
process_trips_raises(list) ==
    IF \E k \in DOMAIN list : list[k].distance.kind = "not numeric"
    THEN "ValueError" ELSE ""

\* process_trips line 127
process_trips(list, u) ==
    Converted(SelectSeq(list, HasDistance), u)

\* calculate_yearly_eddington line 79: trip_date.year <= current_year
NotAfter(year, current_year) == year <= current_year

\* calculate_yearly_eddington lines 74-84: the field the loop over the date
\* fields stops at (its place in DateFields), 0 when it stops at none
RECURSIVE AttributedField(_, _)
AttributedField(trip, k) ==
    IF k > Len(DateFields) THEN 0
    ELSE LET v == trip[DateFields[k]]
         IN  IF v.kind \in {"absent", "empty"} THEN AttributedField(trip, k + 1)
             ELSE IF v.kind = "unparseable" THEN AttributedField(trip, k + 1)
             ELSE IF NotAfter(v.year, CurrentYear) THEN k
             ELSE AttributedField(trip, k + 1)

\* the year whose list the trip's distance is appended to, 0 for none
AttributedYear(trip) ==
    IF ~HasDistance(trip) THEN 0
    ELSE LET k == AttributedField(trip, 1)
         IN  IF k = 0 THEN 0 ELSE trip[DateFields[k]].year

\* line 80: Decimal(str(trip['distance'])) raises decimal.InvalidOperation, which
\* `except ValueError` does not catch
calculate_yearly_eddington_raises(list) ==
    IF \E k \in DOMAIN list :
          AttributedYear(list[k]) # 0 /\ list[k].distance.kind = "not numeric"
    THEN "InvalidOperation" ELSE ""

calculate_yearly_eddington(list, u) ==
    LET years == {AttributedYear(list[k]) : k \in DOMAIN list} \ {0}
        yearly_distances(y) ==
            Converted(SelectSeq(list, LAMBDA t : AttributedYear(t) = y), u)
    IN  [y \in years |-> calculate_eddington(StepsOf(yearly_distances(y)))]

\* calculate_rides_needed_next
calculate_rides_needed_next(ds) ==
    LET target == calculate_eddington(ds) + 1
    IN  target - CountRides(ds, target)

\* analyze_ride_metrics line 211: trip.get('departed_at', trip.get('created_at'))
MetricsDate(trip) ==
    IF trip.departed_at.kind # "absent" THEN trip.departed_at ELSE trip.created_at

\* analyze_ride_metrics lines 208-221: the loop from record k on; the key of a
\* month is kept as its year, a monthly total as the sum of the distances' steps
RECURSIVE MetricsLoop(_, _, _, _, _, _)
MetricsLoop(list, k, u, processed_ids, monthly_totals, monthly_counts) ==
    IF k > Len(list)
    THEN [raises |-> "", monthly_totals |-> monthly_totals,
          monthly_counts |-> monthly_counts]
    ELSE LET trip == list[k]
             date == MetricsDate(trip)
             skip == MetricsLoop(list, k + 1, u, processed_ids \cup {trip.id},
                                 monthly_totals, monthly_counts)
             fails(e) == [raises |-> e, monthly_totals |-> monthly_totals,
                          monthly_counts |-> monthly_counts]
         IN  IF ~HasDistance(trip) \/ trip.id \in processed_ids
             THEN MetricsLoop(list, k + 1, u, processed_ids, monthly_totals,
                              monthly_counts)
             ELSE IF date.kind \in {"absent", "empty"} THEN skip
             ELSE IF date.kind = "unparseable" THEN fails("ValueError")
             ELSE IF trip.distance.kind = "not numeric" THEN fails("InvalidOperation")
             ELSE LET key == date.year
                      old_total == IF key \in DOMAIN monthly_totals
                                   THEN monthly_totals[key] ELSE 0
                      old_count == IF key \in DOMAIN monthly_counts
                                   THEN monthly_counts[key] ELSE 0
                  IN  MetricsLoop(list, k + 1, u, processed_ids \cup {trip.id},
                          [y \in DOMAIN monthly_totals \cup {key} |->
                              IF y = key THEN old_total + Steps(Convert(trip.distance, u))
                              ELSE monthly_totals[y]],
                          [y \in DOMAIN monthly_counts \cup {key} |->
                              IF y = key THEN old_count + 1 ELSE monthly_counts[y]])

analyze_ride_metrics_raises(list, u) ==
    LET loop == MetricsLoop(list, 1, u, {}, <<>>, <<>>)
    IN  IF loop.raises # "" THEN loop.raises
        ELSE IF \E k \in DOMAIN list : list[k].distance.kind = "not numeric"
        THEN "InvalidOperation" ELSE ""

analyze_ride_metrics(list, u) ==
    LET loop == MetricsLoop(list, 1, u, {}, <<>>, <<>>)
        ds == StepsOf(process_trips(list, u))
    IN  [monthly_totals |-> loop.monthly_totals,
         monthly_counts |-> loop.monthly_counts,
         rides_needed_next_e |-> calculate_rides_needed_next(ds),
         milestone_rides |-> get_milestone_rides(ds, u),
         next_e_target |-> calculate_eddington(ds) + 1]

\* calculate_next_yearly_e lines 260-265: strptime raises on a created_at that is
\* no date, Decimal on a distance that is no number
calculate_next_yearly_e_raises(list, year) ==
    LET read == {k \in DOMAIN list :
                    HasDistance(list[k]) /\ list[k].created_at.kind # "absent"}
    IN  IF \E k \in read : list[k].created_at.kind # "date" THEN "ValueError"
        ELSE IF \E k \in read : /\ list[k].created_at.year = year
                                 /\ list[k].distance.kind = "not numeric"
        THEN "InvalidOperation" ELSE ""

\* returns (next_e, rides_at_target, rides_needed)
calculate_next_yearly_e(list, year, u) ==
    LET yearly_distances ==
            StepsOf(Converted(SelectSeq(list, LAMBDA t : /\ HasDistance(t)
                                                         /\ t.created_at.kind = "date"
                                                         /\ t.created_at.year = year),
                              u))
        next_e == calculate_eddington(yearly_distances) + 1
        rides_at_next_e == CountRides(yearly_distances, next_e)
    IN  <<next_e, rides_at_next_e, next_e - rides_at_next_e>>

\* ------------------------------------------------ get_ride_titles
\* A record's name is absent (no 'name' key), empty ('' or None), or a title.
NameAbsent == [kind |-> "absent", text |-> ""]

NameEmpty == [kind |-> "empty", text |-> ""]

Name(title) == [kind |-> "text", text |-> title]

\* 'distance' in trip and 'name' in trip and trip['name']
HasTitle(trip) == HasDistance(trip) /\ trip.name.kind = "text"

\* a < b, for coefficients without leading zero limbs
RECURSIVE LessLimbs(_, _)
LessLimbs(a, b) ==
    IF Len(a) # Len(b) THEN Len(a) < Len(b)
    ELSE IF a = <<>> THEN FALSE
    ELSE IF a[Len(a)] # b[Len(b)] THEN a[Len(a)] < b[Len(b)]
    ELSE LessLimbs(SubSeq(a, 1, Len(a) - 1), SubSeq(b, 1, Len(b) - 1))

\* x < y, for Decimals of the same number of places (two products by one
\* conversion constant)
DecimalLess(x, y) == LessLimbs(x.coef, y.coef)

\* a variant of ComesBefore: a pair also passes the pairs of its own distance
ComesBeforeEqual(pair, other) == ~DecimalLess(pair.distance, other.distance)

\* the order of sorted(.., key=lambda x: x[0], reverse=True) between a pair and
\* one that stood before it in the list: the sort is stable, the pair passes
\* the pairs of a smaller distance only
ComesBefore(pair, other) == DecimalLess(other.distance, pair.distance)

\* `pair`, which stood behind every pair of `sorted`, put in its place
RECURSIVE InsertPair(_, _)
InsertPair(sorted, pair) ==
    IF sorted = <<>> THEN <<pair>>
    ELSE IF ComesBefore(pair, Head(sorted)) THEN <<pair>> \o sorted
    ELSE <<Head(sorted)>> \o InsertPair(Tail(sorted), pair)

\* sorted(distance_title_pairs, key=lambda x: x[0], reverse=True)
RECURSIVE SortedByDistance(_)
SortedByDistance(pairs) ==
    IF pairs = <<>> THEN <<>>
    ELSE InsertPair(SortedByDistance(SubSeq(pairs, 1, Len(pairs) - 1)),
                    pairs[Len(pairs)])

\* lines 190-194: Decimal(str(trip['distance'])) raises decimal.InvalidOperation
\* on a distance that is no number, which `except (ValueError, TypeError)` does
\* not catch
get_ride_titles_raises(list) ==
    IF \E k \in DOMAIN list :
          HasTitle(list[k]) /\ list[k].distance.kind = "not numeric"
    THEN "InvalidOperation" ELSE ""

\* the LongestCount first (distance, title) pairs
get_ride_titles(list, u) ==
    LET titled == SelectSeq(list, HasTitle)
        distance_title_pairs ==
            [k \in 1..Len(titled) |->
                [distance |-> Convert(titled[k].distance, u),
                 title |-> titled[k].name.text]]
        sorted == SortedByDistance(distance_title_pairs)
    IN  SubSeq(sorted, 1, Min(LongestCount, Len(sorted)))

\* ------------------------------------------------ utils.py: the cache file
Units == {"miles", "km"}

NoFile == [kind |-> "absent", trips |-> <<>>, timestamp |-> 0]

CorruptFile == [kind |-> "corrupt", trips |-> <<>>, timestamp |-> 0]

Snapshot(trips, timestamp) ==
    [kind |-> "present", trips |-> trips, timestamp |-> timestamp]

\* load_cached_data: the pickled dict, or None (FileNotFoundError, or any
\* other exception of open / pickle.load)
LoadsData(file) == file.kind = "present"

\* a variant of cache_data: the write never fails
cache_data_written(file, data, outcome) == data

\* cache_data: open(.., 'wb') and pickle.dump, every exception swallowed.  A
\* failed open leaves the file as it was, a failed dump leaves it truncated.
cache_data(file, data, outcome) ==
    CASE outcome = "ok" -> data
      [] outcome = "unchanged" -> file
      [] OTHER -> CorruptFile

WriteOutcomes == {"ok", "unchanged", "corrupt"}

\* ------------------------------------------------ client.py: the remote pages
\* data['trips'] of page `p`, `size` records to a page, newest first
PageOf(list, p, size) ==
    SubSeq(list, (p - 1) * size + 1, Min(p * size, Len(list)))

get_trips_page(p) == PageOf(remote, p, PageSize)

\* data['meta']['pagination']['page_count'], the remote counting its pages at
\* the size get_trips_page is served
PageCount(list) == (Len(list) + PageSize - 1) \div PageSize

\* data['trips'][0] if data['trips'] else None (None is 0: ids are positive)
LatestOf(list) == IF list = <<>> THEN 0 ELSE Head(list)

Ids(trips) == {trips[k] : k \in DOMAIN trips}

\* max(trip['id'] for trip in cached_trips) if cached_trips else 0
MaxId(trips) ==
    IF trips = <<>> THEN 0
    ELSE CHOOSE m \in Ids(trips) : \A x \in Ids(trips) : x <= m

\* [trip for trip in new_trips if trip['id'] > latest_cached_id]
NewerThan(trips, latest_cached_id) ==
    SelectSeq(trips, LAMBDA id : id > latest_cached_id)

\* all_trips.sort(key=lambda x: x['id'])
RECURSIVE InsertById(_, _)
InsertById(sorted, id) ==
    IF sorted = <<>> THEN <<id>>
    ELSE IF Head(sorted) <= id THEN <<Head(sorted)>> \o InsertById(Tail(sorted), id)
    ELSE <<id>> \o sorted

RECURSIVE SortById(_)
SortById(trips) ==
    IF trips = <<>> THEN <<>>
    ELSE InsertById(SortById(SubSeq(trips, 1, Len(trips) - 1)), trips[Len(trips)])

\* update_cache lines 87-88: cached_trips + new_trips, sorted by id
MergeTrips(cached, new_trips) == SortById(cached \o new_trips)

\* ------------------------------------------------ main.py: update_cache
Running == pc \in {"latest", "missing_page", "all_meta", "all_page", "all_backoff"}

NoCalls == [latest |-> 0, page |-> 0, all |-> 0]

SyncIdle ==
    /\ remote = <<>>
    /\ snapshot = [u \in Units |-> NoFile]
    /\ now = 0
    /\ pc = "idle"
    /\ unit = "miles"
    /\ refresh = FALSE
    /\ path = "none"
    /\ cached_trips = <<>>
    /\ page = 0
    /\ total_pages = 0
    /\ fetched = <<>>
    /\ calls = NoCalls
    /\ failures = 0
    /\ result = <<>>
    /\ wrote = "none"
    /\ pre = NoFile
    /\ follows = FALSE
    /\ unsaved = FALSE
    /\ changed = FALSE
    /\ quiet = FALSE
    /\ invoked = [entry |-> "cli", unit |-> "miles", call |-> 1]

\* a variant of Expired: only a file older than twice CACHE_DURATION expires
ExpiredAtTwice(file, time) ==
    time * TickStep - file.timestamp * TickStep > 2 * CACHE_DURATION

\* a variant of Expired: a file of exactly CACHE_DURATION counts as expired
ExpiredAtLimit(file, time) ==
    time * TickStep - file.timestamp * TickStep >= CACHE_DURATION

\* update_cache line 67: time.time() - cached_data.get('timestamp', 0) > CACHE_DURATION
Expired(file, time) == time * TickStep - file.timestamp * TickStep > CACHE_DURATION

\* a variant of CacheIsCurrent: an equal id counts as newer
CacheIsCurrentBelow(latest_trip, latest_cached_id) ==
    latest_trip = 0 \/ latest_trip < latest_cached_id

\* update_cache lines 78-83: no latest trip, or none newer than the cache
CacheIsCurrent(latest_trip, latest_cached_id) ==
    latest_trip = 0 \/ ~(latest_trip > latest_cached_id)

\* the locals of the fetch loops end with the call
DropLocals ==
    /\ cached_trips' = <<>>
    /\ page' = 0
    /\ total_pages' = 0
    /\ fetched' = <<>>
    /\ failures' = 0

\* return <trips> without writing the cache file
Return(trips) ==
    /\ pc' = "done"
    /\ quiet' = TRUE
    /\ DropLocals
    /\ result' = trips
    /\ wrote' = "none"
    /\ UNCHANGED snapshot

\* cache_data({'trips': trips, 'timestamp': time.time()}, ..); return trips
CacheAndReturn(trips) ==
    /\ pc' = "done"
    /\ quiet' = TRUE
    /\ DropLocals
    /\ result' = trips
    /\ \E outcome \in WriteOutcomes :
          /\ wrote' = outcome
          /\ snapshot' = [snapshot EXCEPT
                ![unit] = cache_data(@, Snapshot(trips, now), outcome)]

\* an exception leaves update_cache: "failed" when a remote call raised it,
\* "crashed" when the code itself did
Raise(how) ==
    /\ pc' = how
    /\ quiet' = TRUE
    /\ DropLocals
    /\ result' = <<>>
    /\ wrote' = "none"
    /\ UNCHANGED snapshot

\* update_cache lines 86-96, with new_trips what get_missing_trips returned
MergeAndReturn(new_trips) ==
    IF new_trips # <<>>
    THEN CacheAndReturn(MergeTrips(cached_trips, new_trips))
    ELSE Return(cached_trips)

\* the refresh flag removes the unit's cache file (cli.main lines 263-264,
\* main.main lines 150-151), then update_cache(CACHE_FILE, client, u) loads the
\* file and picks its branch (update_cache lines 53-77)
Begin(u, r) ==
    /\ ~Running
    /\ LET file == IF r /\ snapshot[u].kind # "absent" THEN NoFile ELSE snapshot[u]
       IN  /\ snapshot' = [snapshot EXCEPT ![u] = file]
           /\ IF ~LoadsData(file)
              THEN /\ path' = "nocache"
                   /\ pc' = "all_meta"
                   /\ cached_trips' = <<>>
              ELSE /\ cached_trips' = file.trips
                   /\ IF Expired(file, now)
                      THEN path' = "expired" /\ pc' = "all_meta"
                      ELSE path' = "fresh" /\ pc' = "latest"
    /\ unit' = u
    /\ refresh' = r
    /\ pre' = snapshot[u]
    /\ page' = 0
    /\ total_pages' = 0
    /\ fetched' = <<>>
    /\ calls' = NoCalls
    /\ failures' = 0
    /\ result' = <<>>
    /\ wrote' = "none"
    /\ follows' = /\ pc = "done" /\ quiet /\ unit = u /\ ~r
                   /\ wrote \in {"ok", "none"}
                   /\ LoadsData(snapshot[u]) /\ snapshot[u].trips = result
                   /\ LatestOf(remote) <= MaxId(result)
    /\ unsaved' = (pc = "done" /\ unit = u /\ wrote \in {"unchanged", "corrupt"})
    /\ changed' = FALSE
    /\ quiet' = FALSE
    /\ UNCHANGED <<remote, now>>

\* cli.main lines 260-267: a command run for display unit u
Start(u, r) ==
    /\ Begin(u, r)
    /\ invoked' = [entry |-> "cli", unit |-> u, call |-> 1]

\* main.main lines 147-154: a run for display unit u, its first update_cache
MainStart(u, r) ==
    /\ Begin(u, r)
    /\ invoked' = [entry |-> "main", unit |-> u, call |-> 1]

\* main.main line 156: trips = update_cache(CACHE_FILE, client), the unit
\* parameter left to its default 'miles'
MainSecondCall ==
    /\ invoked.entry = "main"
    /\ invoked.call = 1
    /\ pc = "done"
    /\ Begin("miles", FALSE)
    /\ invoked' = [invoked EXCEPT !.call = 2]

\* update_cache lines 77-85 and get_missing_trips lines 116-123
GetLatestTrip ==
    /\ pc = "latest"
    /\ calls' = [calls EXCEPT !.latest = @ + 1]
    /\ \/ LET latest_trip == LatestOf(remote)
              latest_cached_id == MaxId(cached_trips)
          IN  IF CacheIsCurrent(latest_trip, latest_cached_id)
              THEN Return(cached_trips) /\ UNCHANGED path
              ELSE /\ path' = "incremental"
                   /\ pc' = IF cached_trips = <<>> THEN "all_meta" ELSE "missing_page"
                   /\ page' = 1
                   /\ fetched' = <<>>
                   /\ UNCHANGED <<cached_trips, total_pages, failures, result, wrote,
                                  snapshot, quiet>>
       \/ Raise("failed") /\ UNCHANGED path
    /\ UNCHANGED <<remote, now, unit, refresh, pre, follows, unsaved, changed, invoked>>

\* get_missing_trips lines 125-140 (one turn of its loop) and, when the loop
\* ends, update_cache lines 86-96
GetMissingPage ==
    /\ pc = "missing_page"
    /\ calls' = [calls EXCEPT !.page = @ + 1]
    /\ \/ LET new_trips == NewerThan(get_trips_page(page), MaxId(cached_trips))
          IN  IF new_trips = <<>>
              THEN MergeAndReturn(fetched)
              ELSE /\ fetched' = fetched \o new_trips
                   /\ page' = page + 1
                   /\ UNCHANGED <<cached_trips, total_pages, failures, pc, result,
                                  wrote, snapshot, quiet>>
       \/ Raise("failed")
    /\ UNCHANGED <<remote, now, unit, refresh, path, pre, follows, unsaved, changed, invoked>>

\* get_all_trips lines 151-169: the first request, which gives page_count
GetAllMeta ==
    /\ pc = "all_meta"
    /\ calls' = [calls EXCEPT !.all = @ + 1]
    /\ \/ IF PageCount(remote) = 0
          THEN Raise("crashed")
          ELSE /\ total_pages' = PageCount(remote)
               /\ page' = 1
               /\ fetched' = <<>>
               /\ pc' = "all_page"
               /\ UNCHANGED <<cached_trips, failures, result, wrote, snapshot, quiet>>
       \/ Raise("failed")
    /\ UNCHANGED <<remote, now, unit, refresh, path, pre, follows, unsaved, changed, invoked>>

\* what the caller of get_all_trips does with the trips it returns: update_cache
\* lines 57-62 / 69-74, or lines 86-96 when get_missing_trips called it
AllTripsReturned(trips) ==
    IF path = "incremental" THEN MergeAndReturn(trips) ELSE CacheAndReturn(trips)

\* get_all_trips lines 169-228: one turn of the page loop; a failed page is
\* logged and, after a pause, asked for again; after the last page
\* min(ride_ids) raises on an empty list
GetAllPage ==
    /\ pc = "all_page"
    /\ \/ LET all_trips == fetched \o get_trips_page(page)
          IN  /\ calls' = [calls EXCEPT !.page = @ + 1]
              /\ IF page + 1 <= total_pages
                 THEN /\ fetched' = all_trips
                      /\ page' = page + 1
                      /\ UNCHANGED <<cached_trips, total_pages, failures, pc, result,
                                     wrote, snapshot, quiet>>
                 ELSE IF all_trips = <<>>
                      THEN Raise("crashed")
                      ELSE AllTripsReturned(all_trips)
       \/ /\ failures' = Min(failures + 1, MaxFailures)
          /\ calls' = IF failures < MaxFailures
                      THEN [calls EXCEPT !.page = @ + 1]
                      ELSE calls
          /\ pc' = "all_backoff"
          /\ UNCHANGED <<cached_trips, total_pages, page, fetched, result, wrote,
                         snapshot, quiet>>
    /\ UNCHANGED <<remote, now, unit, refresh, path, pre, follows, unsaved, changed, invoked>>

\* get_all_trips lines 200-203: except Exception: time.sleep(5); continue
Backoff ==
    /\ pc = "all_backoff"
    /\ pc' = "all_page"
    /\ UNCHANGED <<remote, snapshot, now, unit, refresh, path, cached_trips, page,
                   total_pages, fetched, calls, failures, result, wrote, pre, follows, unsaved,
                   changed, quiet, invoked>>

\* ------------------------------------------------ the environment
\* the rider uploads a ride: the remote source gives it the next id
RemoteAdd ==
    /\ Len(remote) < MaxRemote
    /\ remote' = <<LatestOf(remote) + 1>> \o remote
    /\ changed' = (changed \/ Running)
    /\ quiet' = FALSE
    /\ UNCHANGED <<snapshot, now, pc, unit, refresh, path, cached_trips, page,
                   total_pages, fetched, calls, failures, result, wrote, pre, follows, unsaved,
                   invoked>>

\* the clock advances between calls (a call is short beside TickStep)
Tick ==
    /\ ~Running
    /\ now < MaxTime
    /\ now' = now + 1
    /\ quiet' = FALSE
    /\ UNCHANGED <<remote, snapshot, callVars>>

Init ==
    /\ SyncIdle
    /\ distances = <<>>
    /\ E = NoResult
    /\ prevE = NoResult
    /\ op = "init"
    /\ out = <<>>
    /\ raised = ""
    /\ trip_records = <<>>

Next ==
    \/ \E u \in Units, r \in BOOLEAN : Start(u, r) /\ UNCHANGED eddVars
    \/ GetLatestTrip /\ UNCHANGED eddVars
    \/ GetMissingPage /\ UNCHANGED eddVars
    \/ GetAllMeta /\ UNCHANGED eddVars
    \/ GetAllPage /\ UNCHANGED eddVars
    \/ Backoff /\ UNCHANGED eddVars
    \/ RemoteAdd /\ UNCHANGED eddVars
    \/ Tick /\ UNCHANGED eddVars

Spec == Init /\ [][Next]_vars

NextMain ==
    \/ \E u \in Units, r \in BOOLEAN : MainStart(u, r) /\ UNCHANGED eddVars
    \/ MainSecondCall /\ UNCHANGED eddVars
    \/ GetLatestTrip /\ UNCHANGED eddVars
    \/ GetMissingPage /\ UNCHANGED eddVars
    \/ GetAllMeta /\ UNCHANGED eddVars
    \/ GetAllPage /\ UNCHANGED eddVars
    \/ Backoff /\ UNCHANGED eddVars
    \/ RemoteAdd /\ UNCHANGED eddVars
    \/ Tick /\ UNCHANGED eddVars

\* the commands of main.main
SpecMain == Init /\ [][NextMain]_vars

\* the running call keeps taking its steps: each request is answered or fails,
\* each pause ends; nothing is assumed about which of the two a request does
SpecFair ==
    /\ Init
    /\ [][Next]_vars
    /\ WF_syncVars(GetLatestTrip)
    /\ WF_syncVars(GetMissingPage)
    /\ WF_syncVars(GetAllMeta)
    /\ WF_syncVars(GetAllPage)
    /\ WF_syncVars(Backoff)

\* ------------------------------------------------ claims on update_cache
NoDup(trips) == Cardinality(Ids(trips)) = Len(trips)

SortedAsc(trips) ==
    \A i, j \in DOMAIN trips : i < j => trips[i] <= trips[j]

\* the cache file update_cache loaded: the refresh flag removed it before
LoadedFile == IF refresh /\ pre.kind # "absent" THEN NoFile ELSE pre

\* the file is no older than CACHE_DURATION
Fresh(file) == (now - file.timestamp) * TickStep <= CACHE_DURATION

\* the call has returned, and neither the remote source nor the clock has moved
\* since it was started
Returned == pc = "done" /\ quiet /\ ~changed

\* the call met a fresh snapshot and a remote source holding newer records
MetNewer ==
    /\ LoadsData(LoadedFile)
    /\ Fresh(LoadedFile)
    /\ LatestOf(remote) > MaxId(LoadedFile.trips)

\* C3: in the incremental path, with the remote unchanged during the call, the
\* returned and persisted trips are the cached records and every remote record
\* newer than the cached maximum, no id twice, ascending by id, and the
\* snapshot's timestamp is the time of the call.
C3_IncrementalMerge ==
    (Returned /\ MetNewer /\ wrote = "ok") =>
        /\ snapshot[unit] = Snapshot(result, now)
        /\ Ids(result) = Ids(LoadedFile.trips)
                         \cup {id \in Ids(remote) : id > MaxId(LoadedFile.trips)}
        /\ NoDup(result)
        /\ SortedAsc(result)

\* C4: when the cached records and the new ones all fit on the first remote
\* page, the incremental fetch calls get_trips_page exactly once.
C4_OnePageFetched ==
    (Returned /\ MetNewer /\ wrote = "ok" /\ Len(remote) <= PageSize) =>
        calls.page = 1

\* C5: an invocation that ends with the failure of a remote call leaves the
\* unit's snapshot, when it had one, as it was before the invocation.
C5_FailureKeepsSnapshot ==
    (pc = "failed" /\ pre.kind = "present") => snapshot[unit] = pre

\* C6: every record id of the snapshot before an update_cache call is in the
\* snapshot and in the returned trips after it.
C6_NeverLosesRecords ==
    (pc = "done" /\ quiet /\ ~refresh /\ wrote \in {"none", "ok"}) =>
        /\ Ids(pre.trips) \subseteq Ids(snapshot[unit].trips)
        /\ Ids(pre.trips) \subseteq Ids(result)

\* C7: no persisted snapshot holds a record id twice.
C7_NoDuplicateIds == \A u \in Units : NoDup(snapshot[u].trips)

C10_NoSnapshotFetchesAll ==
    (pc \in {"done", "crashed"} /\ quiet /\ ~changed /\ ~LoadsData(LoadedFile)) =>
        /\ pc = "done"
        /\ result = remote
        /\ calls.all = 1
        /\ calls.latest = 0
        /\ wrote = "ok" => snapshot[unit] = Snapshot(result, now)

\* C11: a snapshot older than CACHE_DURATION makes update_cache fetch all
\* trips without asking for the latest trip or taking the incremental path,
\* replace the snapshot with the fetched records under the current time and
\* return them; a snapshot of at most CACHE_DURATION takes the fresh path.
C11_StaleFetchesAll ==
    ((Running \/ quiet) /\ LoadsData(LoadedFile)) =>
        IF Fresh(LoadedFile)
        THEN path \in {"fresh", "incremental"} /\ calls.latest <= 1
        ELSE /\ path = "expired"
             /\ calls.latest = 0
             /\ pc = "done" =>
                   /\ calls.all = 1
                   /\ wrote = "ok" => snapshot[unit] = Snapshot(result, now)
                   /\ ~changed => result = remote

C11_Witness ==
    /\ pc = "done"
    /\ quiet
    /\ ~refresh
    /\ pre.kind = "present"
    /\ (now - pre.timestamp) * TickStep > CACHE_DURATION
    /\ path = "expired"
    /\ wrote = "ok"
    /\ snapshot[unit] = Snapshot(remote, now)
    /\ Len(result) > Len(pre.trips)

\* C12: a get_all_trips call that has begun to fetch its pages always ends, by
\* returning to update_cache or by raising, whatever its page fetches do.
C12_FetchEnds == (pc = "all_page") ~> (pc \in {"done", "failed", "crashed"})

\* C13: a command run for display unit u calls update_cache for unit u only,
\* and no step of it creates, changes or removes the other unit's cache file.
C13_OtherUnitUntouched ==
    [][/\ unit' = invoked'.unit
       /\ \A u \in Units : u # invoked'.unit => snapshot'[u] = snapshot[u]]_vars

\* ------------------------------------------------ the engine's caller
Whole(n) == n * Scale

RECURSIVE SeqsUpTo(_, _)
SeqsUpTo(S, n) ==
    IF n = 0 THEN {<<>>}
    ELSE LET shorter == SeqsUpTo(S, n - 1)
         IN  shorter \cup {Append(s, x) : s \in {t \in shorter : Len(t) = n - 1}, x \in S}

DistValues == 0..(Whole(MaxDist) + Scale - 1)

\* the series of the documented examples
Examples == { <<Whole(1)>>, <<Whole(1), Whole(1)>>, <<Whole(1), Whole(2), Whole(3)>>,
              <<Whole(5), Whole(5), Whole(5), Whole(5), Whole(5)>> }

InitEdd ==
    /\ distances \in SeqsUpTo(DistValues, MaxLen) \cup Examples
    /\ E = NoResult
    /\ prevE = NoResult
    /\ op = "init"
    /\ out = <<>>
    /\ raised = ""
    /\ trip_records = <<>>
    /\ SyncIdle

Calculate ==
    /\ op = "init"
    /\ E = NoResult
    /\ E' = calculate_eddington(distances)
    /\ op' = "calc"
    /\ UNCHANGED <<distances, prevE, out, raised, trip_records>>
    /\ UNCHANGED syncVars

IncreaseElement ==
    /\ E # NoResult
    /\ \E i \in DOMAIN distances : \E d \in 1..Whole(MaxDist) :
          /\ distances[i] + d \in DistValues
          /\ distances' = [distances EXCEPT ![i] = @ + d]
    /\ prevE' = E
    /\ E' = calculate_eddington(distances')
    /\ op' = "increase"
    /\ UNCHANGED <<out, raised, trip_records, syncVars>>

AppendElement ==
    /\ E # NoResult
    /\ Len(distances) < MaxLen
    /\ \E d \in DistValues : distances' = Append(distances, d)
    /\ prevE' = E
    /\ E' = calculate_eddington(distances')
    /\ op' = "append"
    /\ UNCHANGED <<out, raised, trip_records, syncVars>>

NextEdd == Calculate \/ IncreaseElement \/ AppendElement

SpecEdd == InitEdd /\ [][NextEdd]_vars

\* ------------------------------------------------ the engine's callers
\* a series with an empty range between two occupied ones, and the series of
\* the documented statistics example
Spread == { <<Whole(1), Whole(5)>>, <<Whole(10), Whole(20), Whole(30)>> }

DateValues ==
    {DateAbsent, DateEmpty, DateUnparseable}
        \cup {DateIn(y) : y \in 1..(CurrentYear + 1)}

\* every shape of a single record
AllTrips ==
    [id : {1},
     distance : {DistAbsent, DistNotNumeric, Dist(ShortRide), Dist(LongRide)},
     departed_at : DateValues, start_date : DateValues,
     scheduled_date : DateValues, created_at : DateValues]

\* well-formed records of past and current years
PlainTrips ==
    [id : 1..MaxTrips,
     distance : {Dist(ShortRide), Dist(LongRide)},
     departed_at : {DateAbsent, DateIn(1), DateIn(CurrentYear)},
     start_date : {DateAbsent}, scheduled_date : {DateAbsent},
     created_at : {DateIn(1), DateIn(CurrentYear)}]

TripLists == {<<t>> : t \in AllTrips} \cup SeqsUpTo(PlainTrips, MaxTrips)

InitEngine ==
    /\ \/ /\ distances \in SeqsUpTo(DistValues, MaxLen) \cup Examples \cup Spread
          /\ trip_records = <<>>
       \/ /\ distances = <<>>
          /\ trip_records \in TripLists
    /\ E = NoResult
    /\ prevE = NoResult
    /\ op = "init"
    /\ out = <<>>
    /\ raised = ""
    /\ SyncIdle

\* the function of step `name`, applied to the caller's input, returns `value`,
\* or `exception` leaves it
Returns(name, value, exception) ==
    /\ op = "init"
    /\ op' = name
    /\ raised' = exception
    /\ out' = IF exception = "" THEN value ELSE <<>>
    /\ UNCHANGED <<distances, E, prevE, trip_records, syncVars>>

\* display_eddington / main.main: calculate_overall_e_progress(distances, unit)
Progress == Returns("progress", calculate_overall_e_progress(distances), "")

\* cli.main line 270 / main.main line 159
Statistics == Returns("statistics", calculate_statistics(distances), "")

\* display_distribution line 133
AnalyzeDistribution ==
    Returns("analyze_distribution", analyze_ride_distribution(distances),
            IF distances = <<>> THEN "ValueError" ELSE "")

\* display_distribution: analyze_ride_distribution, then the buckets
DisplayDistribution ==
    Returns("distribution", Buckets(distances),
            IF distances = <<>> THEN "ValueError" ELSE "")

\* main.main lines 210-223: the buckets alone
MainDistribution == Returns("main_distribution", Buckets(distances), "")

Milestones(u) ==
    Returns("milestones", [unit |-> u, value |-> get_milestone_rides(distances, u)], "")

\* display_milestones on the milestone_rides of analyze_ride_metrics
DisplayMilestones(u) ==
    LET milestones == get_milestone_rides(distances, u)
    IN  Returns("display_milestones", [unit |-> u, value |-> milestones],
                display_milestones_raises(milestones, u))

\* cli.main line 268
ProcessTrips(u) ==
    Returns("process_trips", [unit |-> u, value |-> process_trips(trip_records, u)],
            process_trips_raises(trip_records))

\* cli.main line 269
YearlyEddington(u) ==
    Returns("yearly",
            [unit |-> u, value |-> calculate_yearly_eddington(trip_records, u)],
            calculate_yearly_eddington_raises(trip_records))

\* cli.main line 271
RideMetrics(u) ==
    Returns("metrics", [unit |-> u, value |-> analyze_ride_metrics(trip_records, u)],
            analyze_ride_metrics_raises(trip_records, u))

\* display_ytd, reached when lines 268-271 of cli.main raised nothing and the
\* current year has an Eddington number: calculate_next_yearly_e
DisplayYtd(u) ==
    /\ process_trips_raises(trip_records) = ""
    /\ calculate_yearly_eddington_raises(trip_records) = ""
    /\ analyze_ride_metrics_raises(trip_records, u) = ""
    /\ CurrentYear \in DOMAIN calculate_yearly_eddington(trip_records, u)
    /\ Returns("next_yearly",
               [unit |-> u,
                value |-> calculate_next_yearly_e(trip_records, CurrentYear, u)],
               calculate_next_yearly_e_raises(trip_records, CurrentYear))

NextEngine ==
    \/ Calculate
    \/ Progress
    \/ Statistics
    \/ AnalyzeDistribution
    \/ DisplayDistribution
    \/ MainDistribution
    \/ \E u \in Units : Milestones(u)
    \/ \E u \in Units : DisplayMilestones(u)
    \/ \E u \in Units : ProcessTrips(u)
    \/ \E u \in Units : YearlyEddington(u)
    \/ \E u \in Units : RideMetrics(u)
    \/ \E u \in Units : DisplayYtd(u)

SpecEngine == InitEngine /\ [][NextEngine]_vars

\* ------------------------------------------------ get_ride_titles alone
TitledTrips ==
    [id : {1},
     distance : {DistAbsent, DistNotNumeric, Dist(ShortRide), Dist(LongRide)},
     name : {NameAbsent, NameEmpty, Name("a"), Name("b")}]

InitTitles ==
    /\ distances = <<>>
    /\ trip_records \in SeqsUpTo(TitledTrips, MaxTitled)
    /\ E = NoResult
    /\ prevE = NoResult
    /\ op = "init"
    /\ out = <<>>
    /\ raised = ""
    /\ SyncIdle

\* display_longest: get_ride_titles(trips, distances, unit)
DisplayLongest(u) ==
    Returns("longest", [unit |-> u, value |-> get_ride_titles(trip_records, u)],
            get_ride_titles_raises(trip_records))

NextTitles == \E u \in Units : DisplayLongest(u)

SpecTitles == InitTitles /\ [][NextTitles]_vars

\* ------------------------------------------------ process_trips alone
\* the distances, in meters, of the documented conversions (100 km; 100 miles
\* to the meter, just below and just above), one and two miles to the meter,
\* and none
ConversionMeters == {0, 1609, 3219, 100000, 160934, 160935}

ConversionTrips ==
    [id : {1},
     distance : {DistAbsent} \cup {Dist(meters) : meters \in ConversionMeters},
     departed_at : {DateIn(1)},
     start_date : {DateAbsent}, scheduled_date : {DateAbsent},
     created_at : {DateIn(1)}]

InitConvert ==
    /\ distances = <<>>
    /\ trip_records \in SeqsUpTo(ConversionTrips, MaxTrips)
    /\ E = NoResult
    /\ prevE = NoResult
    /\ op = "init"
    /\ out = <<>>
    /\ raised = ""
    /\ SyncIdle

NextConvert == \E u \in Units : ProcessTrips(u)

SpecConvert == InitConvert /\ [][NextConvert]_vars

\* ------------------------------------------------------------ claims
\* number of rides of the series of at least e whole units
RidesAtLeast(ds, e) == Cardinality({k \in DOMAIN ds : ds[k] >= Whole(e)})

\* C1: calculate_eddington returns the largest integer e such that at least e
\* distances of the series are >= e (0 for the empty series), and the documented
\* examples give 0, 1, 1, 2 and 5.
C1_LargestE ==
    E # NoResult =>
        /\ E \in 0..Len(distances)
        /\ RidesAtLeast(distances, E) >= E
        /\ \A e \in (E + 1)..(Len(distances) + 1) : RidesAtLeast(distances, e) < e
        /\ distances = <<>> => E = 0
        /\ distances = <<Whole(1)>> => E = 1
        /\ distances = <<Whole(1), Whole(1)>> => E = 1
        /\ distances = <<Whole(1), Whole(2), Whole(3)>> => E = 2
        /\ distances = <<Whole(5), Whole(5), Whole(5), Whole(5), Whole(5)>> => E = 5

C1_Witness ==
    /\ op = "calc"
    /\ distances = <<Whole(5), Whole(5), Whole(5), Whole(5), Whole(5)>>
    /\ E = 5

\* C2: raising one element of the series, or appending an element to it, never
\* makes calculate_eddington return less than it returned before.
C2_Monotone == op \in {"increase", "append"} => E >= prevE

C2_Witness ==
    /\ op = "increase"
    /\ prevE = 1
    /\ E = 2
    /\ Len(distances) = 2

\* C14: calculate_overall_e_progress returns the Eddington number of the
\* series, the number of rides of at least one more, that number's distance
\* from the next threshold, and the same two for the threshold after it; the
\* rides needed are 0 exactly when the rides at the next threshold equal it.
C14_ProgressTuple ==
    op = "progress" =>
        /\ Len(out) = 5
        /\ out[1] = calculate_eddington(distances)
        /\ RidesAtLeast(distances, out[1]) >= out[1]
        /\ out[2] = RidesAtLeast(distances, out[1] + 1)
        /\ out[3] = (out[1] + 1) - out[2]
        /\ out[4] = RidesAtLeast(distances, out[1] + 2)
        /\ out[5] = (out[1] + 2) - out[4]
        /\ (out[3] = 0) <=> (out[2] = out[1] + 1)

C14_Witness ==
    /\ op = "progress"
    /\ out = <<2, 2, 1, 0, 4>>
    /\ \E k \in DOMAIN distances : distances[k] = Whole(2) + 1

\* C15 as stated: some series (here: among those no longer than the present
\* one, a longest one) has rides_needed_next <= 0, its next threshold already
\* met by the rides while the Eddington number has not advanced.
C15_MayBeSatisfied ==
    Len(distances) >= MaxLen =>
        \E ds \in SeqsUpTo(DistValues, Len(distances)) :
            calculate_overall_e_progress(ds)[3] <= 0

\* C15 as amended: rides_needed_next is never below 1 and rides_needed_nextnext
\* never below 2: the rides at the next threshold are always fewer than it.
C15_NeededPositive ==
    op = "progress" =>
        /\ out[3] >= 1
        /\ out[5] >= 2
        /\ out[2] < out[1] + 1

C15_Witness ==
    /\ op = "progress"
    /\ Len(distances) = MaxLen
    /\ out[1] >= 1
    /\ out[2] = out[1]
    /\ out[3] = 1

\* the steps that apply the engine functions C16 names
EmptyInputOps ==
    {"calc", "statistics", "yearly", "progress", "milestones",
     "analyze_distribution", "metrics"}

\* C16: applied to an empty distance series or an empty trip list, each of
\* these engine functions returns a zero or empty result and raises nothing.
C16_EmptyNeverRaises ==
    (distances = <<>> /\ trip_records = <<>> /\ op \in EmptyInputOps) =>
        /\ raised = ""
        /\ op = "calc" => E = 0
        /\ op = "statistics" =>
              out = [longest_ride |-> 0, average_ride |-> 0, total_distance |-> 0]
        /\ op = "yearly" => out.value = <<>>
        /\ op = "progress" => out[1] = 0
        /\ op = "milestones" => out.value = <<>>
        /\ op = "analyze_distribution" => out = <<>>
        /\ op = "metrics" =>
              /\ out.value.monthly_totals = <<>>
              /\ out.value.monthly_counts = <<>>
              /\ out.value.milestone_rides = <<>>

\* the year of the first timestamp field, in the order of DateFields, that is
\* non-empty and parseable; 0 when there is none
FirstParseableYear(trip) ==
    LET dated == {k \in DOMAIN DateFields : trip[DateFields[k]].kind = "date"}
    IN  IF dated = {} THEN 0
        ELSE trip[DateFields[CHOOSE k \in dated : \A j \in dated : k <= j]].year

\* the converted distances, in order, of the records whose year by that rule is y
DistancesOfYear(list, y, u) ==
    LET picked == SelectSeq(list, LAMBDA t : FirstParseableYear(t) = y)
    IN  [k \in 1..Len(picked) |-> Steps(Convert(picked[k].distance, u))]

\* C17: calculate_yearly_eddington puts each trip (of numeric distance) in the
\* bucket of the year of its first non-empty parseable timestamp field, in that
\* bucket only, and returns for each such year the Eddington number of the
\* bucket's distances alone.
C17_YearAttribution ==
    (op = "yearly" /\ \A k \in DOMAIN trip_records :
                         trip_records[k].distance.kind = "number") =>
        /\ raised = ""
        /\ DOMAIN out.value =
               {FirstParseableYear(trip_records[k]) : k \in DOMAIN trip_records} \ {0}
        /\ \A y \in DOMAIN out.value :
               out.value[y] =
                   calculate_eddington(DistancesOfYear(trip_records, y, out.unit))

\* a record C18 calls malformed: no timestamp field holds a date, or the
\* distance is no number
Malformed(trip) ==
    \/ \A k \in DOMAIN DateFields : trip[DateFields[k]].kind # "date"
    \/ trip.distance.kind = "not numeric"

\* a record with nothing wrong: every field it has holds a value of its kind
Clean(trip) ==
    /\ trip.distance.kind \in {"absent", "number"}
    /\ \A k \in DOMAIN DateFields : trip[DateFields[k]].kind \in {"absent", "date"}

\* C18: a malformed record makes no aggregation step raise; it is left out of
\* the yearly buckets, and a numeric distance of it is still in the series
\* process_trips returns.
C18_MalformedSkipped ==
    (/\ op \in {"process_trips", "yearly", "metrics", "next_yearly"}
     /\ \A k \in DOMAIN trip_records :
            Malformed(trip_records[k]) \/ Clean(trip_records[k])) =>
        /\ raised = ""
        /\ op = "yearly" =>
              \A k \in DOMAIN trip_records :
                  Malformed(trip_records[k]) =>
                      FirstParseableYear(trip_records[k]) \notin DOMAIN out.value
        /\ op = "process_trips" =>
              Len(out.value) =
                  Cardinality({k \in DOMAIN trip_records :
                                  trip_records[k].distance.kind = "number"})

\* sum of the series, from its end
RECURSIVE SumUpTo(_, _)
SumUpTo(ds, n) == IF n = 0 THEN 0 ELSE ds[n] + SumUpTo(ds, n - 1)

\* C19: calculate_statistics returns zeros for the empty series; otherwise
\* longest is the maximum element, total the sum, and average the total divided
\* by the number of elements (to the precision of the division); [10, 20, 30]
\* gives 30, 20 and 60.
C19_Statistics ==
    op = "statistics" =>
        /\ raised = ""
        /\ distances = <<>> =>
              out = [longest_ride |-> 0, average_ride |-> 0, total_distance |-> 0]
        /\ distances # <<>> =>
              /\ \E k \in DOMAIN distances : out.longest_ride = distances[k]
              /\ \A k \in DOMAIN distances : distances[k] <= out.longest_ride
              /\ out.total_distance = SumUpTo(distances, Len(distances))
              /\ LET n == Len(distances)
                     off == out.average_ride * n - out.total_distance * AvgScale
                 IN  /\ 2 * off <= n
                     /\ 2 * off >= 0 - n
                     /\ (out.total_distance * AvgScale) % n = 0 => off = 0
        /\ distances = <<Whole(10), Whole(20), Whole(30)>> =>
              out = [longest_ride |-> Whole(30), average_ride |-> Whole(20) * AvgScale,
                     total_distance |-> Whole(60)]

C19_Witness ==
    /\ op = "statistics"
    /\ distances = <<Whole(10), Whole(20), Whole(30)>>
    /\ out.average_ride = Whole(20) * AvgScale
    /\ out.total_distance = Whole(60)

\* C20: the ride distribution maps the ranges [lower, lower + bucket_size),
\* lower a multiple of bucket_size from 0 on, to the number of distances in
\* them, leaves out the ranges without rides, and counts every distance in
\* exactly one reported range, so that the counts sum to the number of rides,
\* whatever empty range lies between two occupied ones.
C20_Distribution ==
    op \in {"distribution", "main_distribution"} =>
        /\ raised = ""
        /\ \A lower \in DOMAIN out :
               /\ lower >= 0
               /\ lower % bucket_size = 0
               /\ out[lower] > 0
               /\ out[lower] =
                     Cardinality({k \in DOMAIN distances :
                         /\ lower * Scale <= distances[k]
                         /\ distances[k] < (lower + bucket_size) * Scale})
        /\ \A k \in DOMAIN distances :
               Cardinality({lower \in DOMAIN out :
                   /\ lower * Scale <= distances[k]
                   /\ distances[k] < (lower + bucket_size) * Scale}) = 1

\* number of rides of the series at or above `threshold` whole units
RidesFrom(threshold) ==
    Cardinality({k \in DOMAIN distances : distances[k] >= Whole(threshold)})

\* C21: for a non-empty series and either unit, the distance-achievements
\* report is produced (nothing is raised) from the result of
\* get_milestone_rides, whose four counts are the rides at or above the unit's
\* century threshold and its double, triple and quadruple.
C21_MilestoneReport ==
    (op = "display_milestones" /\ distances # <<>>) =>
        /\ raised = ""
        /\ LET c == IF out.unit = "miles" THEN CenturyMiles ELSE CenturyKm
           IN  /\ out.value.centuries = RidesFrom(c)
               /\ out.value.double_centuries = RidesFrom(2 * c)
               /\ out.value.triple_centuries = RidesFrom(3 * c)
               /\ out.value.quad_centuries = RidesFrom(4 * c)

\* the records of trip_records that have a distance, up to record i
WithDistanceUpTo(i) ==
    {j \in 1..i : trip_records[j].distance.kind # "absent"}

\* C22: process_trips returns one converted distance per trip that has a
\* distance, in trip order; a conversion is the exact decimal product (the
\* context rounds nothing): kilometers are the meters divided by 1000 exactly,
\* so that 100000 meters are exactly 100 km and count as a ride of at least
\* 100; miles are the meters divided by 1609.344 to within 1/1000, and 160934
\* meters are within 1/1000 of 100 miles.
C22_Conversion ==
    (op = "process_trips" /\ raised = "") =>
        /\ Len(out.value) = Cardinality(WithDistanceUpTo(Len(trip_records)))
        /\ \A i \in WithDistanceUpTo(Len(trip_records)) :
              LET x == out.value[Cardinality(WithDistanceUpTo(i))]
                  meters == trip_records[i].distance.raw
                  thousandths == Truncated(x, 1000)
              IN  /\ Exact(x)
                  /\ out.unit = "km" =>
                        /\ thousandths = meters
                        /\ ZeroBelow(x.coef, x.places - 3)
                        /\ meters = 100000 =>
                              /\ EqualsWhole(x, 100)
                              /\ CountRides(<<Steps(x)>>, 100) = 1
                  /\ out.unit = "miles" =>
                        /\ 1609 * thousandths <= 1000 * meters
                        /\ 1610 * (thousandths + 1) > 1000 * meters
                        /\ meters = 160934 => thousandths \in {99999, 100000}

C22_Witness ==
    /\ op = "process_trips"
    /\ raised = ""
    /\ out.unit = "km"
    /\ Len(trip_records) = 2
    /\ trip_records[1].distance.kind = "absent"
    /\ trip_records[2].distance.raw = 100000
    /\ Len(out.value) = 1
    /\ EqualsWhole(out.value[1], 100)

\* C23: the year-to-date goal display_ytd shows is the year's Eddington number
\* plus one: calculate_next_yearly_e(trips, y) returns as next_e the value of
\* calculate_yearly_eddington(trips)[y] + 1.
C23_GoalFollowsYearly ==
    (op = "next_yearly" /\ raised = "") =>
        out.value[1] =
            calculate_yearly_eddington(trip_records, out.unit)[CurrentYear] + 1

\* the ids the snapshot of the running call's unit holds, none when it does not
\* load
PersistedIds == IF LoadsData(snapshot[unit]) THEN Ids(snapshot[unit].trips) ELSE {}

\* C24: a failed write of the snapshot is not reported.  The call ends normally
\* and returns the trips it fetched (on the incremental path, the cached trips
\* with the newer ones); the cache file is what it was before the write, or
\* unreadable, so that no record the call fetched beyond those of the file it
\* started from is persisted; and the next call for the unit, if it ends
\* normally, has fetched pages again.
C24_FailedWriteIsSilent ==
    /\ wrote \in {"unchanged", "corrupt"} =>
          /\ pc = "done"
          /\ result # <<>>
          /\ path = "incremental" =>
                /\ Ids(pre.trips) \subseteq Ids(result)
                /\ MaxId(result) > MaxId(pre.trips)
          /\ wrote = "unchanged" =>
                snapshot[unit] = IF refresh /\ pre.kind # "absent" THEN NoFile ELSE pre
          /\ wrote = "corrupt" => snapshot[unit] = CorruptFile
          /\ PersistedIds \cap (Ids(result) \ Ids(pre.trips)) = {}
    /\ (unsaved /\ pc = "done") => calls.page >= 1

C24_Witness ==
    /\ unsaved
    /\ pc = "done"
    /\ path = "incremental"
    /\ wrote = "ok"
    /\ pre.kind = "present"

\* the records of trip_records with a distance and a non-empty name
Titled == {i \in DOMAIN trip_records :
              /\ trip_records[i].distance.kind # "absent"
              /\ trip_records[i].name.kind = "text"}

\* the place of record i among them: after the longer rides, and after the
\* rides of its own length that stand before it in the list
Place(i) ==
    1 + Cardinality({j \in Titled :
            \/ trip_records[j].distance.raw > trip_records[i].distance.raw
            \/ /\ trip_records[j].distance.raw = trip_records[i].distance.raw
               /\ j < i})

\* C25: get_ride_titles returns at most LongestCount (five) pairs, the k-th of
\* which is the converted distance and the title of the trip that comes k-th
\* among the trips with a distance and a non-empty name, by distance
\* descending and, for equal distances, by the order of the trip list.
C25_RideTitles ==
    (op = "longest" /\ raised = "") =>
        /\ Len(out.value) <= LongestCount
        /\ Len(out.value) = Min(LongestCount, Cardinality(Titled))
        /\ \A k \in DOMAIN out.value :
              \E i \in Titled :
                  /\ Place(i) = k
                  /\ out.value[k].title = trip_records[i].name.text
                  /\ out.value[k].distance = Convert(trip_records[i].distance, out.unit)

C25_Witness ==
    /\ op = "longest"
    /\ raised = ""
    /\ Len(trip_records) = 3
    /\ trip_records[1].distance = Dist(ShortRide) /\ trip_records[1].name = Name("b")
    /\ trip_records[2].distance = Dist(LongRide) /\ trip_records[2].name = Name("a")
    /\ trip_records[3].distance = Dist(LongRide) /\ trip_records[3].name = Name("b")
    /\ Len(out.value) = LongestCount
    /\ out.value[1].title = "a"
    /\ out.value[2].title = "b"

====
